---- MODULE Spec2Model ----
(***************************************************************************)
(* Walk-forward out-of-sample evaluation (src/src/evaluation.py):          *)
(* run_walk_forward and dm_test; the dataset builder                       *)
(* (src/src/build_model_dataset.py) and steps 4 to 6 of main (src/main.py).*)
(*                                                                         *)
(* Values are counted in units of the floor 1e-3: Floor = 1 stands for     *)
(* 1e-3, a raw value RawLow = 0 is one the floor clamps.  QLIKE losses are *)
(* kept in units of 0.1 (natural logarithm tabulated for the two values    *)
(* the model uses).  A missing float (np.nan) is the empty sequence <<>>,  *)
(* a present one the one-element sequence <<v>>; Python's None is <<>>.    *)
(*                                                                         *)
(* The estimators (statsmodels OLS, scikit-learn RandomForestRegressor)    *)
(* are library code: whether a fit or predict raises is an input chosen   *)
(* per step (at most MaxEvents times in a run, within the first            *)
(* MaxEventStep iterations), or, for HAR-X, from a chosen iteration on.    *)
(* Raw targets and raw predictions are Nominal, except in a table with     *)
(* sub_floor, where one of each lies under the floor (RawAt).              *)
(***************************************************************************)
EXTENDS Integers, Sequences, FiniteSets, TLC

VARIABLES
    call,            \* entry point under execution, e.g. "run_walk_forward"
    pc,              \* position in the entry point
    file_exists,     \* file_path.exists()
    missing,         \* required columns absent from the file
    file_rows,       \* rows of the file that pass the cleaning (see RawRow)
    data,            \* cleaned table: the file row behind each position
    n_obs,           \* len(data)
    commodity_name,  \* argument commodity_name
    df_columns,      \* conflict columns of the file, each [tag, ind, lag]
    window_size, step_size, rf_refit_every, nw_lags_dm,
    final_conflicts, \* the selected conflict column: <<>> or <<column>>
    have_conflict,   \* len(final_conflicts) == 1
    sub_floor,       \* the table holds values under the floor (see RawAt)
    aug_fail_from,   \* <<>>, or <<k>>: HAR-X estimation raises from iteration k on
    t,               \* loop variable of the walk-forward loop
    rows,            \* forecast records appended so far
    n_fail,          \* failure counters base / aug / rf
    rf_model,        \* cached benchmark model: <<>> or <<[fit_t, train]>>
    rf_last_fit_t,   \* <<>> or <<fit index>>
    result,          \* <<>> while running; then "None", "raised" or "table"
    report,          \* scores / tests computed by the reporting stage
    last,            \* log of the latest loop iteration: <<>> or <<record>>
    n_fit,           \* number of estimator fits attempted so far
    n_iter,          \* number of loop iterations executed so far
    raised,          \* number of iterations in which each estimator raised
    max_read,        \* highest row index read by an estimator so far
    budget,          \* exceptional estimator outcomes still allowed
    dm_args,         \* arguments of a direct dm_test call
    dm_out,          \* <<>>, or <<return value, [clipped arrays, var_hat]>>
    bd_args,         \* arguments and files of a build_dataset_for_commodity call
    bd_out,          \* <<>>, or <<the table it returns>>
    main_in,         \* main: the commodities whose step-4 merge succeeds
    main_st          \* main: position and calls made so far

params == <<file_exists, missing, commodity_name, df_columns, file_rows,
            window_size, step_size, rf_refit_every, nw_lags_dm, sub_floor,
            aug_fail_from>>
cleanvars == <<data, n_obs>>
selvars == <<final_conflicts, have_conflict>>
loopvars == <<t, rows, n_fail, rf_model, rf_last_fit_t, last, n_fit, n_iter,
              raised, max_read, budget>>
dmvars == <<dm_args, dm_out>>
bdvars == <<bd_args, bd_out>>
mainvars == <<main_in, main_st>>
vars == <<call, pc, params, selvars, cleanvars, loopvars, result, report, dmvars,
          bdvars, mainvars>>

----------------------------------------------------------------------------
(* Bounds of the model *)

MaxExtra == 1        \* evaluation points above the 50-row minimum
MaxEvents == 2       \* estimator exceptions chosen per run
MaxEventStep == 3    \* they happen within the first iterations
MaxDmExtra == 2      \* dm_test sample lengths up to 30 + MaxDmExtra
AugBreakIter == 25   \* iteration from which a broken HAR-X keeps raising

(* Program constants *)

MinEvalRows == 50    \* n_obs < window_size + 50
MinForecasts == 50   \* len(rows) < 50
MinCommon == 50      \* len(res_c) < 50
DmMinT == 30         \* T < 30
Floor == 1           \* floor = 1e-3, the unit of values

Nominal == Floor + 1     \* an ordinary value above the floor
RawLow == Floor - 1      \* a raw value the floor clamps

None == <<>>
NaN == <<>>

features_base == {"RV_Daily", "RV_Weekly", "RV_Monthly"}
target == "Target_RV"
RequiredCols == {"Date"} \cup features_base \cup {target}

Max(a, b) == IF a >= b THEN a ELSE b

----------------------------------------------------------------------------
(* QLIKE loss and dm_test *)

\* np.log on the clamped grid, in units of 0.1: ln(0.001), ln(0.002)
Ln(p) == IF p = Floor THEN 0 - 69 ELSE 0 - 62

\* np.clip(x, 1e-3, None)
Clip(x) == Max(x, Floor)

\* np.clip on an array
ClipAll(x) == [i \in 1..Len(x) |-> Clip(x[i])]

\* log(pred) + actual / pred, in units of 0.1
Qlike(a, p) == Ln(p) + (10 * a) \div p

RECURSIVE SumSeq(_)
SumSeq(s) == IF s = <<>> THEN 0 ELSE Head(s) + SumSeq(Tail(s))

\* sum over i of x[i] * x[i-L], i = L+1 .. Len(x)   (dc[L:] * dc[:-L])
RECURSIVE CrossSum(_, _, _)
CrossSum(x, L, i) ==
    IF i > Len(x) THEN 0 ELSE x[i] * x[i - L] + CrossSum(x, L, i + 1)

RECURSIVE SumOver(_, _)
SumOver(S, f) ==
    IF S = {} THEN 0
    ELSE LET x == CHOOSE y \in S : TRUE IN f[x] + SumOver(S \ {x}, f)

\* len(d) < 30
DmTooFew(T) == T < DmMinT

\* Lag-L autocovariance np.mean(dc[L:] * dc[:-L]) as a fraction: the mean of
\* an array of T - L products.  D[i] = T * dc[i], so the sum carries T^2.
GammaDen(T, L) == T - L

\* product of the autocovariance denominators over the lags in S
RECURSIVE ProdGamma(_, _)
ProdGamma(T, S) ==
    IF S = {} THEN 1
    ELSE LET L == CHOOSE x \in S : TRUE IN GammaDen(T, L) * ProdGamma(T, S \ {L})

Degenerate_ZeroOnly(vnum) == vnum = 0

\* var_hat < 1e-18
Degenerate(vnum) == vnum <= 0

LossDiff_RawActualInSecond(actual, pred1, pred2) ==
    [i \in 1..Len(actual) |->
        Qlike(Clip(actual[i]), Clip(pred1[i])) - Qlike(actual[i], Clip(pred2[i]))]

\* d = loss1 - loss2 on the clipped arrays
LossDiff(actual, pred1, pred2) ==
    LET a == ClipAll(actual)
        p1 == ClipAll(pred1)
        p2 == ClipAll(pred2)
    IN  [i \in 1..Len(actual) |-> Qlike(a[i], p1[i]) - Qlike(a[i], p2[i])]

\* T * dc, with dc = d - d.mean()
Centered(d) ==
    LET T == Len(d)
        S == SumSeq(d)
    IN  [i \in 1..T |-> T * d[i] - S]

\* Bartlett weight w = 1 - L / (nw_lags + 1), times nw_lags + 1
WeightNum(L, nw_lags) == nw_lags + 1 - L

\* var_hat = gamma0 + sum over L of 2 * w * gammaL, as the fraction
\* num / (T^3 * scale)
VarHat(d, nw_lags) ==
    LET T == Len(d)
        D == Centered(d)
        Lags == 1..nw_lags
        g0 == SumSeq([i \in 1..T |-> D[i] * D[i]])
        scale == (nw_lags + 1) * ProdGamma(T, Lags)
    IN  [num |-> scale * g0
                 + SumOver(Lags, [L \in Lags |->
                     2 * WeightNum(L, nw_lags) * T
                       * ProdGamma(T, Lags \ {L})
                       * CrossSum(D, L, L + 1)]),
         scale |-> scale]

\* The value dm_test returns.  kind "nan": (nan, nan); kind "degenerate":
\* (0.0, 1.0); kind "stat": dm_stat = sign * sqrt(num / den), and p_value is
\* the two-sided Student-t tail of |dm_stat| with df degrees of freedom.
dm_test(actual, pred1, pred2, nw_lags) ==
    LET d == LossDiff(actual, pred1, pred2)
        T == Len(d)
        S == SumSeq(d)
        v == VarHat(d, nw_lags)
    IN  IF DmTooFew(T) THEN [kind |-> "nan", sign |-> 0, num |-> 0, den |-> 1, df |-> 0]
        ELSE IF Degenerate(v.num)
             THEN [kind |-> "degenerate", sign |-> 0, num |-> 0, den |-> 1, df |-> 0]
             ELSE [kind |-> "stat",
                   sign |-> IF S > 0 THEN 1 ELSE IF S < 0 THEN 0 - 1 ELSE 0,
                   num |-> S * S * T * T * v.scale,
                   den |-> v.num,
                   df |-> T - 1]

----------------------------------------------------------------------------
(* run_walk_forward: input contract *)

\* pd.read_csv(file_path, parse_dates=["Date"]) and df["Date"] raise when the
\* Date column is absent
ReadRaises(miss) == "Date" \in miss

\* missing = [c for c in ["Date"] + features_base + [target] if c not in df.columns]
MissingCols(miss) == miss \cap RequiredCols

EnoughRows_WindowOnly(n, w) == ~(n < w)

\* not (n_obs < window_size + 50)
EnoughRows(n, w) == ~(n < w + MinEvalRows)

----------------------------------------------------------------------------
(* run_walk_forward: the file and its cleaning *)

\* Dates are counted in days; the file's good rows run from start_date to
\* end_date
StartDate == 0       \* start_date
EndDate == 1000      \* end_date

\* Rows of the file that the cleaning has to remove: dated in range, one
\* cell group not finite.  req: Target_RV and the three baseline features;
\* conf: the conflict columns; other: the remaining columns (Price).
Dirt ==
    <<[req |-> "nan", conf |-> "ok", other |-> "ok"],
      [req |-> "inf", conf |-> "ok", other |-> "ok"],
      [req |-> "ok", conf |-> "nan", other |-> "ok"],
      [req |-> "ok", conf |-> "inf", other |-> "ok"],
      [req |-> "ok", conf |-> "ok", other |-> "nan"]>>

AllOk == [req |-> "ok", conf |-> "ok", other |-> "ok"]

\* The k-th of n good rows: dated start_date, start_date + 1, ..., the last
\* one end_date
GoodRow(n, k) ==
    [date |-> IF k = n /\ n > 1 THEN EndDate ELSE StartDate + k - 1, cells |-> AllOk]

\* Number of rows of a file with n good rows: a row dated before start_date,
\* the good rows with one row of Dirt after each of the first ones, and a
\* row dated after end_date
DirtIn(n) == IF n < Len(Dirt) THEN n ELSE Len(Dirt)
RawLen(n) == n + DirtIn(n) + 2

\* Row p (1-based, in file order) of that file
RawRow(n, p) ==
    LET q == p - 1
        m == DirtIn(n)
    IN  IF p = 1 THEN [date |-> StartDate - 1, cells |-> AllOk]
        ELSE IF q <= 2 * m
             THEN IF q % 2 = 1 THEN GoodRow(n, (q + 1) \div 2)
                  ELSE [date |-> StartDate + (q \div 2) - 1, cells |-> Dirt[q \div 2]]
        ELSE IF q - m <= n THEN GoodRow(n, q - m)
        ELSE [date |-> EndDate + 1, cells |-> AllOk]

InDates_NoEnd(d) == d >= StartDate

\* (df["Date"] >= start_date) & (df["Date"] <= end_date)
InDates(d) == d >= StartDate /\ d <= EndDate

\* df.dropna(subset=cols_required) keeps the row
KeptBySubset(r, hc) == r.cells.req # "nan" /\ (hc => r.cells.conf # "nan")

\* .replace([np.inf, -np.inf], np.nan) on a cell
ReplaceInf(c) == IF c = "inf" THEN "nan" ELSE c

\* .dropna() keeps the row
KeptByDropna(r) == \A g \in DOMAIN r.cells : ReplaceInf(r.cells[g]) # "nan"

ResetIndex_Reversed(s) == [i \in 1..Len(s) |-> s[Len(s) + 1 - i]]

\* .reset_index(drop=True): position i - 1 of the result is the i-th kept row
ResetIndex(s) == s

\* data, as the file row (1-based) behind each position of the cleaned table
Clean(n, hc) ==
    ResetIndex(SelectSeq([p \in 1..RawLen(n) |-> p],
                         LAMBDA p : /\ InDates(RawRow(n, p).date)
                                    /\ KeptBySubset(RawRow(n, p), hc)
                                    /\ KeptByDropna(RawRow(n, p))))

----------------------------------------------------------------------------
(* run_walk_forward: selection of the conflict column *)

\* A conflict column [tag, ind, lag] is the column named
\* f"{tag}__{ind}_lag{lag}" (build_dataset_for_commodity)
ColName(c) == c.tag \o "__" \o c.ind \o "_lag" \o ToString(c.lag)

\* The words the selection looks for, as they occur in a lower-cased name
Words(c) ==
    {c.tag}
    \cup (IF c.ind \in {"log_deaths_ewma_94", "log_deaths_ewma_97"}
          THEN {"log_deaths"} ELSE {})
    \cup (IF c.ind \in {"log_deaths_ewma_94", "log_fatal_ewma_94"}
          THEN {"ewma_94"} ELSE {})

\* word in c.lower()
InName(word, c) == word \in Words(c)

EndsWithLag1_AnyLag(c) == TRUE

\* c.endswith("_lag1")
EndsWithLag1(c) == c.lag = 1

\* candidates = [c for c in df.columns if "log_deaths" in c.lower()
\*               and "ewma_94" in c.lower() and c.endswith("_lag1")]
candidates(cols) ==
    {c \in cols : InName("log_deaths", c) /\ InName("ewma_94", c) /\ EndsWithLag1(c)}

\* word in commodity_name.lower()
InCommodity(word, name) ==
    \/ word = "wti" /\ name = "WTI"
    \/ word = "gas" /\ name = "GAS"
    \/ word = "gold" /\ name = "GOLD"

\* The if / elif / elif / else on name_lower
conflict_cols(cols, name) ==
    LET cand == candidates(cols)
        in_region(r) == {c \in cand : InName(r, c)}
    IN  IF InCommodity("wti", name) \/ InCommodity("oil", name)
        THEN in_region("middle_east")
        ELSE IF InCommodity("gas", name) THEN in_region("europe")
        ELSE IF InCommodity("gold", name)
             THEN IF in_region("global") # {} THEN in_region("global")
                  ELSE in_region("middle_east")
             ELSE cand

\* Position of a word in the ascending string order of the words in use
Rank(word, order) == CHOOSE i \in 1..Len(order) : order[i] = word
TagOrder == <<"europe", "gas_focus", "global", "middle_east", "oil_focus">>
IndOrder == <<"log_deaths_ewma_94", "log_deaths_ewma_97", "log_fatal_ewma_94">>

\* ColName(a) <= ColName(b) as Python compares strings
NameLeq(a, b) ==
    LET ta == Rank(a.tag, TagOrder)
        tb == Rank(b.tag, TagOrder)
        ia == Rank(a.ind, IndOrder)
        ib == Rank(b.ind, IndOrder)
    IN  \/ ta < tb
        \/ ta = tb /\ ia < ib
        \/ ta = tb /\ ia = ib /\ a.lag <= b.lag

\* final_conflicts = sorted([c for c in conflict_cols if c.endswith("_lag1")])[:1]
FinalConflicts(cols, name) ==
    LET lag1 == {c \in conflict_cols(cols, name) : EndsWithLag1(c)}
    IN  IF lag1 = {} THEN <<>>
        ELSE <<CHOOSE c \in lag1 : \A d \in lag1 : NameLeq(c, d)>>

\* have_conflict = len(final_conflicts) == 1
HaveConflict(fc) == Len(fc) = 1

----------------------------------------------------------------------------
(* run_walk_forward: one loop iteration *)

TrainIdx_OfCachedFit(tt, w) ==
    IF rf_model = None THEN [lo |-> tt - w, hi |-> tt - 1]
    ELSE [lo |-> rf_model[1].lo, hi |-> rf_model[1].hi]

TrainIdx_ThroughT(tt, w) == [lo |-> tt - w + 1, hi |-> tt]

\* train = data.iloc[t - window_size:t]: first and last row index
TrainIdx(tt, w) == [lo |-> tt - w, hi |-> tt - 1]

\* x_now = data.iloc[[t]]
TestIdx(tt) == tt

NextT_Skip(tt, step) == tt + step + 1

\* range(window_size, n_obs, step_size): the index after tt
NextT(tt, step) == tt + step

InRange_Inclusive(tt, n) == tt <= n

\* range(window_size, n_obs, step_size): tt is visited
InRange(tt, n) == tt < n

FloorAt_Raw(v) == v

\* max(v, floor)
FloorAt(v) == Max(v, Floor)

FitIndex_Next(tt) == tt + 1

\* rf_last_fit_t = t
FitIndex(tt) == tt

NeedRefit_OnlyFirst(model, last_fit, tt, every) == model = None

NeedRefit_Strict(model, last_fit, tt, every) ==
    \/ model = None
    \/ last_fit = None
    \/ tt - last_fit[1] > every

\* need_refit = rf_model is None or rf_last_fit_t is None
\*              or (t - rf_last_fit_t) >= rf_refit_every
NeedRefit(model, last_fit, tt, every) ==
    \/ model = None
    \/ last_fit = None
    \/ tt - last_fit[1] >= every

OnBaseFail_NoCount(nf) == nf

OnBaseFail_Twice(nf) == [nf EXCEPT !.base = @ + 2]

\* except Exception: n_fail["base"] += 1; continue
OnBaseFail(nf) == [nf EXCEPT !.base = @ + 1]

OnAugFail_NoCount(nf) == nf

OnAugFail_Both(nf) == [nf EXCEPT !.aug = @ + 1, !.rf = @ + 1]

\* except Exception: n_fail["aug"] += 1; pa = np.nan
OnAugFail(nf) == [nf EXCEPT !.aug = @ + 1]

OnRfFail_NoCount(nf) == nf

\* except Exception: n_fail["rf"] += 1; pr = np.nan
OnRfFail(nf) == [nf EXCEPT !.rf = @ + 1]

RfAttempted_Always(hc, aug_failed) == TRUE

RfAttempted_AfterAugOnly(hc, aug_failed) == hc /\ ~aug_failed

\* The RF block follows the HAR-X try/except inside `if have_conflict`:
\* it is entered whatever the HAR-X outcome was
RfAttempted(hc, aug_failed) == hc

\* rows.append({"Date", "Actual", "Pred_HAR", "Pred_HARX", "Pred_RF"}); the
\* date of a row of the cleaned table stands for its index
Record(tt, y, pb, pa, pr) ==
    [Date |-> tt, Actual |-> y, Pred_HAR |-> pb, Pred_HARX |-> pa, Pred_RF |-> pr]

\* Which estimator calls of one iteration raise
Outcomes ==
    [base : {"ok", "fail"}, aug : {"ok", "fail"},
     rf_fit : {"ok", "fail"}, rf_pred : {"ok", "fail"}]

NominalOutcome == [base |-> "ok", aug |-> "ok", rf_fit |-> "ok", rf_pred |-> "ok"]

B2N(b) == IF b THEN 1 ELSE 0

Cost(o) ==
    B2N(o.base # "ok") + B2N(o.aug # "ok") + B2N(o.rf_fit # "ok")
    + B2N(o.rf_pred # "ok")

\* Calls that the iteration never makes, or whose outcome is fixed, are "ok"
Relevant(o, aug_free, rf_tried, need) ==
    /\ o.base = "fail" => o.aug = "ok" /\ o.rf_fit = "ok" /\ o.rf_pred = "ok"
    /\ ~aug_free => o.aug = "ok"
    /\ ~rf_tried => o.rf_fit = "ok" /\ o.rf_pred = "ok"
    /\ ~need => o.rf_fit = "ok"
    /\ o.rf_fit = "fail" => o.rf_pred = "ok"

\* The raw value of the target at the test row ("y") or of a model's
\* prediction ("pb", "pa", "pr") at iteration i: in a table with sub_floor
\* the first four iterations each hold one value under the floor
RawAt(kind, i) ==
    IF sub_floor /\ \/ (kind = "y" /\ i = 0) \/ (kind = "pb" /\ i = 1)
                    \/ (kind = "pa" /\ i = 2) \/ (kind = "pr" /\ i = 3)
    THEN RawLow ELSE Nominal

\* X_aug = features_base + final_conflicts; rf_features = X_aug[:]
X_aug == features_base \cup {ColName(final_conflicts[i]) : i \in 1..Len(final_conflicts)}

\* Cells <<row, column>> of the cleaned table read by
\* sm.OLS(train[target], add_constant(train[cols])).fit().predict(x_now[cols])
OlsReads(train, test, cols) ==
    ((train.lo..train.hi) \X (cols \cup {target})) \cup ({test} \X cols)

\* Cells read by predict_random_forest(rf_model, x_now[rf_features]), with
\* rf_model = fit_random_forest(train[rf_features], train[target]) fitted on
\* the rows model.lo .. model.hi
RfReads(model, test, cols) ==
    ((model.lo..model.hi) \X (cols \cup {target})) \cup ({test} \X cols)

Step ==
    /\ pc = "loop"
    /\ InRange(t, n_obs)
    /\ \E o \in (IF budget = 0 \/ n_iter >= MaxEventStep
                 THEN {NominalOutcome} ELSE Outcomes) :
        LET train == TrainIdx(t, window_size)
            y_now == FloorAt(RawAt("y", n_iter))
            base_ok == o.base = "ok"
            aug_tried == base_ok /\ have_conflict
            aug_broken == aug_fail_from # None /\ n_iter >= aug_fail_from[1]
            aug_failed == aug_tried /\ (aug_broken \/ o.aug = "fail")
            rf_tried == base_ok /\ RfAttempted(have_conflict, aug_failed)
            need == rf_tried /\ NeedRefit(rf_model, rf_last_fit_t, t, rf_refit_every)
            fitted == need /\ o.rf_fit = "ok"
            model1 == IF fitted
                      THEN <<[fit_t |-> t, lo |-> train.lo, hi |-> train.hi]>>
                      ELSE rf_model
            fit_t1 == IF fitted THEN <<FitIndex(t)>> ELSE rf_last_fit_t
            rf_failed == rf_tried /\ (IF need /\ o.rf_fit = "fail" THEN TRUE
                                      ELSE o.rf_pred = "fail")
            pb == <<FloorAt(RawAt("pb", n_iter))>>
            pa == IF aug_tried /\ ~aug_failed
                  THEN <<FloorAt(RawAt("pa", n_iter))>> ELSE NaN
            pr == IF rf_tried /\ ~rf_failed
                  THEN <<FloorAt(RawAt("pr", n_iter))>> ELSE NaN
            nf1 == IF aug_failed THEN OnAugFail(n_fail) ELSE n_fail
            nf2 == IF rf_failed THEN OnRfFail(nf1) ELSE nf1
        IN  /\ Relevant(o, have_conflict /\ ~aug_broken, rf_tried, need)
            /\ Cost(o) <= budget
            /\ budget' = budget - Cost(o)
            /\ t' = NextT(t, step_size)
            /\ n_fit' = n_fit + 1 + B2N(aug_tried) + B2N(need)
            /\ n_iter' = n_iter + 1
            /\ raised' = [base |-> raised.base + B2N(~base_ok),
                          aug |-> raised.aug + B2N(aug_failed),
                          rf |-> raised.rf + B2N(rf_failed)]
            /\ max_read' = Max(max_read, Max(train.hi, TestIdx(t)))
            /\ IF ~base_ok
               THEN /\ n_fail' = OnBaseFail(n_fail)
                    /\ UNCHANGED <<rows, rf_model, rf_last_fit_t>>
               ELSE /\ n_fail' = nf2
                    /\ rf_model' = model1
                    /\ rf_last_fit_t' = fit_t1
                    /\ rows' = Append(rows, Record(TestIdx(t), y_now, pb, pa, pr))
            /\ last' = <<[t |-> t, train |-> train, test |-> TestIdx(t),
                          k |-> n_iter,
                          prior_read |-> max_read,
                          base |-> o.base,
                          aug |-> IF ~aug_tried THEN "skip"
                                  ELSE IF aug_failed THEN "fail" ELSE "ok",
                          rf |-> IF ~rf_tried THEN "skip"
                                 ELSE IF rf_failed THEN "fail" ELSE "ok",
                          need_refit |-> need,
                          fit |-> IF ~need THEN "none" ELSE o.rf_fit,
                          used |-> IF rf_tried /\ ~rf_failed THEN model1 ELSE None,
                          model_before |-> rf_model,
                          fit_t_before |-> rf_last_fit_t,
                          n_fail_before |-> n_fail,
                          n_rows_before |-> Len(rows),
                          n_fit_before |-> n_fit,
                          emitted |-> base_ok]>>
    /\ UNCHANGED <<call, pc, params, selvars, cleanvars, result, report, dmvars,
                   bdvars, mainvars>>

----------------------------------------------------------------------------
(* run_walk_forward: entry and reporting stage *)

NoReport == [qlike_har |-> <<>>, qlike_harx |-> <<>>, qlike_rf |-> <<>>, dm |-> <<>>]

\* Lines 95-172: file check, column check, cleaning, size check, loop set-up
Validate ==
    /\ call = "run_walk_forward"
    /\ pc = "start"
    /\ IF ~file_exists \/ ReadRaises(missing) \/ MissingCols(missing) # {}
       THEN UNCHANGED <<selvars, cleanvars>>
       ELSE /\ final_conflicts' = FinalConflicts(df_columns, commodity_name)
            /\ have_conflict' = HaveConflict(final_conflicts')
            /\ data' = Clean(file_rows, have_conflict')
            /\ n_obs' = Len(data')
    /\ IF ~file_exists THEN result' = "None" /\ pc' = "done"
       ELSE IF ReadRaises(missing) THEN result' = "raised" /\ pc' = "done"
       ELSE IF MissingCols(missing) # {} THEN result' = "None" /\ pc' = "done"
       ELSE IF ~EnoughRows(n_obs', window_size) THEN result' = "None" /\ pc' = "done"
       ELSE result' = result /\ pc' = "loop"
    /\ UNCHANGED <<call, params, loopvars, report, dmvars, bdvars, mainvars>>

\* np.isfinite on a prediction field
IsFinite(p) == p # NaN

InCommon_AlwaysAll(r, hc) ==
    IsFinite(r.Pred_HAR) /\ IsFinite(r.Pred_HARX) /\ IsFinite(r.Pred_RF)

\* common = isfinite(Pred_HAR) & isfinite(Pred_HARX) & isfinite(Pred_RF), or
\* isfinite(Pred_HAR) alone without a conflict column
InCommon(r, hc) ==
    IF hc THEN IsFinite(r.Pred_HAR) /\ IsFinite(r.Pred_HARX) /\ IsFinite(r.Pred_RF)
    ELSE IsFinite(r.Pred_HAR)

\* res_c = res.loc[common]
Common(rs, hc) == SelectSeq(rs, LAMBDA r : InCommon(r, hc))

\* len(rows) < 50
TooFewForecasts(n) == n < MinForecasts

TooFewCommon_Low(n) == n < 20

\* len(res_c) < 50
TooFewCommon(n) == n < MinCommon

\* float(np.mean(np.log(p) + a / p)) as <<sum of losses, sample size>>
QlikeMean(a, p) == <<SumSeq([i \in 1..Len(a) |-> Qlike(a[i], p[i])]), Len(a)>>

\* Lines 252-316
Report ==
    /\ call = "run_walk_forward"
    /\ pc = "loop"
    /\ ~InRange(t, n_obs)
    /\ pc' = "done"
    /\ LET res_c == Common(rows, have_conflict)
           n == Len(res_c)
           a == [i \in 1..n |-> res_c[i].Actual]
           ph == [i \in 1..n |-> res_c[i].Pred_HAR[1]]
           px == [i \in 1..n |-> res_c[i].Pred_HARX[1]]
           prf == [i \in 1..n |-> res_c[i].Pred_RF[1]]
       IN  IF TooFewForecasts(Len(rows))
           THEN result' = "None" /\ report' = report
           ELSE /\ result' = "table"
                /\ IF TooFewCommon(n) THEN report' = report
                   ELSE IF ~have_conflict
                        THEN report' = [report EXCEPT !.qlike_har = <<QlikeMean(a, ph)>>]
                        ELSE report' =
                               [qlike_har |-> <<QlikeMean(a, ph)>>,
                                qlike_harx |-> <<QlikeMean(a, px)>>,
                                qlike_rf |-> <<QlikeMean(a, prf)>>,
                                dm |-> <<dm_test(a, ph, px, nw_lags_dm),
                                         dm_test(a, ph, prf, nw_lags_dm)>>]
    /\ UNCHANGED <<call, params, selvars, cleanvars, loopvars, dmvars, bdvars, mainvars>>

\* A direct call dm_test(actual, pred1, pred2, nw_lags)
DmTestCall ==
    /\ call = "dm_test"
    /\ pc = "start"
    /\ dm_out' = <<dm_test(dm_args.actual, dm_args.pred1, dm_args.pred2,
                           dm_args.nw_lags),
                   [actual |-> ClipAll(dm_args.actual),
                    pred1 |-> ClipAll(dm_args.pred1),
                    pred2 |-> ClipAll(dm_args.pred2),
                    var_hat |-> VarHat(LossDiff(dm_args.actual, dm_args.pred1,
                                                dm_args.pred2), dm_args.nw_lags)]>>
    /\ pc' = "done"
    /\ UNCHANGED <<call, params, selvars, cleanvars, loopvars, result, report, dm_args,
                   bdvars, mainvars>>

----------------------------------------------------------------------------
(* build_dataset_for_commodity (src/src/build_model_dataset.py) *)

\* The values the files hold for the day dated d: RV_Daily of the feature
\* file, the conflict index of the conflict file
RvOf(d) == 10 + d
ConflictOf(d) == 100 + d

\* load_features_ready: df.sort_values("Date").reset_index(drop=True), as the
\* dates of the rows in ascending order
SortByDate(file) ==
    LET S == {file[i] : i \in 1..Len(file)}
    IN  [i \in 1..Len(file) |->
            CHOOSE d \in S : Cardinality({e \in S : e < d}) = i - 1]

Shift_None(col, k) == col

\* Series.shift(k): row i takes the value of row i - k, NaN where there is none
Shift(col, k) ==
    [i \in 1..Len(col) |-> IF i - k \in 1..Len(col) THEN col[i - k] ELSE NaN]

\* df.merge(c, on="Date", how="left") and fillna(0.0) on the conflict column
MergedFilled(dates, present) ==
    [i \in 1..Len(dates) |->
        IF dates[i] \in present THEN <<ConflictOf(dates[i])>> ELSE <<0>>]

\* .dropna() keeps the row
BuildKeeps(r) == r.Target_RV # NaN /\ \A K \in DOMAIN r.lag : r.lag[K] # NaN

\* The table build_dataset_for_commodity returns: per row the Date, RV_Daily,
\* Target_RV and the columns <col>_lagK for K in conflict_lags
build_dataset_for_commodity(file, present, conflict_lags) ==
    LET dates == SortByDate(file)
        n == Len(dates)
        rv == [i \in 1..n |-> <<RvOf(dates[i])>>]
        Target_RV == Shift(rv, 0 - 1)
        conf == MergedFilled(dates, present)
        lagset == {conflict_lags[j] : j \in 1..Len(conflict_lags)}
        lagged == [K \in lagset |-> Shift(conf, K)]
    IN  SelectSeq([i \in 1..n |->
                      [Date |-> dates[i], RV_Daily |-> rv[i],
                       Target_RV |-> Target_RV[i],
                       lag |-> [K \in lagset |-> lagged[K][i]]]],
                  BuildKeeps)

\* A call of build_dataset_for_commodity
BuildDataset ==
    /\ call = "build_dataset_for_commodity"
    /\ pc = "start"
    /\ bd_out' = <<build_dataset_for_commodity(bd_args.file, bd_args.present,
                                               bd_args.conflict_lags)>>
    /\ pc' = "done"
    /\ UNCHANGED <<call, params, selvars, cleanvars, loopvars, result, report,
                   dmvars, bd_args, mainvars>>

----------------------------------------------------------------------------
(* Inputs *)

SmallWindow == 2     \* window_size of the runs that reach the loop

\* <<window_size, rows of the cleaned table>>
Tables ==
    {<<750, 770>>, <<750, 0>>}
    \cup {<<SmallWindow, SmallWindow + e>> :
            e \in {0, 20, MinEvalRows - 1} \cup (MinEvalRows..(MinEvalRows + MaxExtra))}

\* <<step_size, rf_refit_every>>; 5 and 25 are the defaults of the signature
Cadences == {<<1, 2>>, <<5, 2>>, <<5, 25>>, <<5, 0>>}
NwLags == {1}

\* Sample lengths of the direct dm_test calls
DmLens == (DmMinT - 2)..(DmMinT + MaxDmExtra)

\* A series of length n, Nominal except for the value v at position k
Series(n, k, v) == [i \in 1..n |-> IF i = k THEN v ELSE Nominal]

\* A series of length n alternating Floor, Nominal, ..., except for v at k
AltSeries(n, k, v) ==
    [i \in 1..n |-> IF i = k THEN v ELSE IF i % 2 = 1 THEN Floor ELSE Nominal]

DmPositions == {1, 2}
DmValues == {RawLow, Floor, Nominal}

\* Prediction series of length n of the direct dm_test calls
DmPreds(n) ==
    {Series(n, k, v) : k \in DmPositions, v \in DmValues}
    \cup {AltSeries(n, k, v) : k \in DmPositions, v \in DmValues}

\* Conflict columns a file may hold
Tags == {"europe", "global", "middle_east", "oil_focus"}
Inds == {"log_deaths_ewma_94", "log_deaths_ewma_97", "log_fatal_ewma_94"}
ConflictLags == {0, 1, 2}
ColumnUniverse == [tag : Tags, ind : Inds, lag : ConflictLags]
Commodities == {"WTI", "GAS", "GOLD", "COPPER"}

MaxCols == 2         \* conflict columns of the files of InitSelect

RECURSIVE ColumnSets(_)
ColumnSets(k) ==
    IF k = 0 THEN {{}}
    ELSE LET P == ColumnSets(k - 1)
         IN  P \cup {S \cup {c} : S \in P, c \in ColumnUniverse}

\* The lagged columns build_dataset_for_commodity writes for the given
\* sources, indicator and lags
Dataset(tags, ind, lags) == [tag : tags, ind : {ind}, lag : lags]

\* main: the conflict sources merged into each commodity's dataset
merge_config(name) ==
    IF name = "WTI" THEN {"oil_focus", "middle_east"}
    ELSE IF name = "GAS" THEN {"gas_focus", "europe"}
    ELSE {"middle_east", "global"}

\* The conflict columns of the dataset main builds for a commodity:
\* conflict_cols=["log_fatal_ewma_94"], conflict_lags=(0, 1)
MainDataset(name) == Dataset(merge_config(name), "log_fatal_ewma_94", {0, 1})

MainCommodities == {"WTI", "GAS", "GOLD"}

\* <<commodity_name, conflict columns>> of the runs that reach the loop:
\* the WTI dataset of main, and the same with the indicator named log_deaths
LoopInputs ==
    {<<"WTI", MainDataset("WTI")>>,
     <<"WTI", Dataset(merge_config("WTI"), "log_deaths_ewma_94", {0, 1})>>}

\* <<commodity_name, conflict columns>> of the runs of InitSelect: every
\* small set of columns, and the datasets of main
SelectInputs ==
    (Commodities \X ColumnSets(MaxCols))
    \cup {<<name, MainDataset(name)>> : name \in MainCommodities}

InitWalk ==
    /\ call = "run_walk_forward"
    /\ pc = "start"
    /\ \E li \in LoopInputs : commodity_name = li[1] /\ df_columns = li[2]
    /\ final_conflicts = <<>>
    /\ file_exists \in BOOLEAN
    /\ missing \in {{}} \cup {{c} : c \in RequiredCols}
    /\ \E tb \in Tables : window_size = tb[1] /\ file_rows = tb[2]
    /\ data = <<>> /\ n_obs = 0
    /\ \E cd \in Cadences : step_size = cd[1] /\ rf_refit_every = cd[2]
    /\ nw_lags_dm \in NwLags
    /\ have_conflict = FALSE
    /\ sub_floor \in BOOLEAN
    /\ aug_fail_from \in (IF HaveConflict(FinalConflicts(df_columns, commodity_name))
                          THEN {None, <<AugBreakIter>>} ELSE {None})
    /\ t = window_size
    /\ rows = <<>>
    /\ n_fail = [base |-> 0, aug |-> 0, rf |-> 0]
    /\ rf_model = None
    /\ rf_last_fit_t = None
    /\ result = "running"
    /\ report = NoReport
    /\ last = <<>>
    /\ n_fit = 0
    /\ n_iter = 0
    /\ raised = [base |-> 0, aug |-> 0, rf |-> 0]
    /\ max_read = 0 - 1
    /\ budget = MaxEvents
    /\ dm_args = <<>>
    /\ dm_out = <<>>
    /\ bd_args = <<>> /\ bd_out = <<>>
    /\ main_in = {} /\ main_st = <<>>

\* Runs on a table too short for the loop, over all small sets of columns
InitSelect ==
    /\ call = "run_walk_forward"
    /\ pc = "start"
    /\ file_exists = TRUE
    /\ missing = {}
    /\ \E si \in SelectInputs : commodity_name = si[1] /\ df_columns = si[2]
    /\ final_conflicts = <<>>
    /\ window_size = SmallWindow /\ file_rows = SmallWindow
    /\ data = <<>> /\ n_obs = 0
    /\ step_size = 5
    /\ rf_refit_every = 25
    /\ nw_lags_dm = 1
    /\ have_conflict = FALSE
    /\ sub_floor = FALSE
    /\ aug_fail_from = None
    /\ t = window_size
    /\ rows = <<>>
    /\ n_fail = [base |-> 0, aug |-> 0, rf |-> 0]
    /\ rf_model = None
    /\ rf_last_fit_t = None
    /\ result = "running"
    /\ report = NoReport
    /\ last = <<>>
    /\ n_fit = 0
    /\ n_iter = 0
    /\ raised = [base |-> 0, aug |-> 0, rf |-> 0]
    /\ max_read = 0 - 1
    /\ budget = MaxEvents
    /\ dm_args = <<>>
    /\ dm_out = <<>>
    /\ bd_args = <<>> /\ bd_out = <<>>
    /\ main_in = {} /\ main_st = <<>>

InitDm ==
    /\ call = "dm_test"
    /\ pc = "start"
    /\ commodity_name = "WTI"
    /\ df_columns = {}
    /\ final_conflicts = <<>>
    /\ file_exists = TRUE
    /\ missing = {}
    /\ window_size = SmallWindow /\ file_rows = 0
    /\ data = <<>> /\ n_obs = 0
    /\ step_size = 1
    /\ rf_refit_every = 1
    /\ nw_lags_dm = 1
    /\ have_conflict = FALSE
    /\ sub_floor = FALSE
    /\ aug_fail_from = None
    /\ t = window_size
    /\ rows = <<>>
    /\ n_fail = [base |-> 0, aug |-> 0, rf |-> 0]
    /\ rf_model = None
    /\ rf_last_fit_t = None
    /\ result = "running"
    /\ report = NoReport
    /\ last = <<>>
    /\ n_fit = 0
    /\ n_iter = 0
    /\ raised = [base |-> 0, aug |-> 0, rf |-> 0]
    /\ max_read = 0 - 1
    /\ budget = 0
    /\ \E n \in DmLens, ka \in DmPositions, va \in DmValues, lags \in NwLags :
        \E p1, p2 \in DmPreds(n) :
          dm_args = [actual |-> Series(n, ka, va), pred1 |-> p1,
                     pred2 |-> p2, nw_lags |-> lags]
    /\ dm_out = <<>>
    /\ bd_args = <<>> /\ bd_out = <<>>
    /\ main_in = {} /\ main_st = <<>>

\* The variables of run_walk_forward and dm_test while another entry point runs
IdleWalk ==
    /\ commodity_name = "WTI"
    /\ df_columns = {}
    /\ final_conflicts = <<>>
    /\ file_exists = TRUE
    /\ missing = {}
    /\ window_size = SmallWindow /\ file_rows = 0
    /\ data = <<>> /\ n_obs = 0
    /\ step_size = 1
    /\ rf_refit_every = 1
    /\ nw_lags_dm = 1
    /\ have_conflict = FALSE
    /\ sub_floor = FALSE
    /\ aug_fail_from = None
    /\ t = window_size
    /\ rows = <<>>
    /\ n_fail = [base |-> 0, aug |-> 0, rf |-> 0]
    /\ rf_model = None
    /\ rf_last_fit_t = None
    /\ result = "running"
    /\ report = NoReport
    /\ last = <<>>
    /\ n_fit = 0
    /\ n_iter = 0
    /\ raised = [base |-> 0, aug |-> 0, rf |-> 0]
    /\ max_read = 0 - 1
    /\ budget = 0
    /\ dm_args = <<>>
    /\ dm_out = <<>>

MaxBuildRows == 4    \* rows of the feature file of a build_dataset_for_commodity call

\* The orders in which a file can hold the days 1 .. n
RECURSIVE Orders(_)
Orders(S) ==
    IF S = {} THEN {<<>>}
    ELSE UNION {{<<d>> \o rest : rest \in Orders(S \ {d})} : d \in S}

\* conflict_lags of the call; main passes (0, 1)
BuildLags == {<<0, 1>>, <<1>>, <<1, 2>>}

InitBuild ==
    /\ call = "build_dataset_for_commodity"
    /\ pc = "start"
    /\ IdleWalk
    /\ \E n \in 0..MaxBuildRows :
        \E file \in Orders(1..n), present \in SUBSET (1..n), lags \in BuildLags :
          bd_args = [file |-> file, present |-> present, conflict_lags |-> lags]
    /\ bd_out = <<>>
    /\ main_in = {} /\ main_st = <<>>

\* main: merge_config.items(), the commodities in the order the step-4 loop
\* visits them
MainOrder == <<"WTI", "GAS", "GOLD">>

\* for name, fpath in final_files: if fpath.exists(): run_har_comparison(...)
\* (every path of final_files was written by build_dataset_for_commodity);
\* visited is the number of commodities the step-4 loop has taken up so far
HarComparisons(final_files, visited) ==
    [k \in 1..Len(final_files) |-> [name |-> final_files[k], visited |-> visited]]

\* One iteration of `for name, conflict_map in merge_config.items()`: the
\* merge of the commodity (appended to final_files when it succeeds, skipped
\* or caught otherwise), then the STEP 5 block, which is indented into the
\* body of this loop
MergeIteration ==
    /\ call = "main" /\ pc = "start"
    /\ main_st.i < Len(MainOrder)
    /\ LET name == MainOrder[main_st.i + 1]
           final_files == IF name \in main_in
                          THEN Append(main_st.final_files, name)
                          ELSE main_st.final_files
       IN main_st' = [main_st EXCEPT
                         !.i = @ + 1,
                         !.final_files = final_files,
                         !.har_calls = @ \o HarComparisons(final_files, main_st.i + 1)]
    /\ UNCHANGED <<call, pc, params, selvars, cleanvars, loopvars, result,
                   report, dmvars, bdvars, main_in>>

\* STEP 6, after the loop: run_walk_forward on every file of final_files
WalkForwardAll ==
    /\ call = "main" /\ pc = "start"
    /\ main_st.i = Len(MainOrder)
    /\ main_st' = [main_st EXCEPT !.wf_calls = main_st.final_files]
    /\ pc' = "done"
    /\ UNCHANGED <<call, params, selvars, cleanvars, loopvars, result,
                   report, dmvars, bdvars, main_in>>

\* A pipeline run: any of the three merges may succeed or not
InitMain ==
    /\ call = "main"
    /\ pc = "start"
    /\ IdleWalk
    /\ bd_args = <<>> /\ bd_out = <<>>
    /\ main_in \in SUBSET MainCommodities
    /\ main_st = [i |-> 0, final_files |-> <<>>,
                  har_calls |-> <<>>, wf_calls |-> <<>>]

Init == InitWalk \/ InitSelect \/ InitDm \/ InitBuild \/ InitMain

Next ==
    \/ Validate \/ Step \/ Report \/ DmTestCall \/ BuildDataset
    \/ MergeIteration \/ WalkForwardAll

Spec == Init /\ [][Next]_vars

----------------------------------------------------------------------------
(* Properties *)

Ran == call = "run_walk_forward"
Stepped == Ran /\ last # <<>>
L == last[1]

\* The record appended by the latest iteration
LastRec == rows[Len(rows)]

\* Cells that decide each prediction of the latest iteration
ReadsHAR == IF L.base = "ok" THEN OlsReads(L.train, L.test, features_base) ELSE {}
ReadsHARX == IF L.aug = "ok" THEN OlsReads(L.train, L.test, X_aug) ELSE {}
ReadsRF == IF L.rf = "ok" THEN RfReads(L.used[1], L.test, X_aug) ELSE {}
ReadsAll == ReadsHAR \cup ReadsHARX \cup ReadsRF

\* C1 as stated: no prediction of step t is decided by a cell of row t or of a
\* later row (neither directly nor through the state left by earlier steps).
C1_NoReadAtOrAfterT ==
    Stepped => /\ \A c \in ReadsAll : c[1] < L.t
               /\ L.prior_read < L.t

\* C1 (amended): the predictions of step t are decided only by rows before t
\* and by the regressor columns of row t itself: Pred_HAR by the three baseline
\* columns, Pred_HARX and Pred_RF by those and the conflict column.  The
\* target and date of row t, and every cell of a later row, decide nothing;
\* the state carried into step t was decided by rows before t.
C1_NoLookAhead ==
    Stepped =>
        /\ \A c \in ReadsHAR : c[1] < L.t \/ (c[1] = L.t /\ c[2] \in features_base)
        /\ \A c \in ReadsHARX \cup ReadsRF :
               c[1] < L.t \/ (c[1] = L.t /\ c[2] \in X_aug)
        /\ L.prior_read < L.t

\* An iteration in which all three models predicted, the benchmark from the cache
C1_Witness ==
    Stepped /\ L.base = "ok" /\ L.aug = "ok" /\ L.rf = "ok" /\ L.fit = "none"
            /\ L.k > 0

\* The refit condition of the latest iteration, from the cache it found
RefitDue ==
    \/ L.model_before = None
    \/ L.t - L.fit_t_before[1] >= rf_refit_every

\* C2 as stated: at every evaluation step in augmented mode the benchmark is
\* refit exactly when no model exists yet or t - t_fit >= rf_refit_every.
C2_RefitIffDueAtEveryStep ==
    (Stepped /\ have_conflict) => ((L.fit # "none") <=> RefitDue)

\* C2 (amended): at every evaluation step in augmented mode at which the
\* baseline forecast succeeded, a benchmark fit is run exactly when no model
\* exists yet or t - t_fit >= rf_refit_every (t_fit the row index of the last
\* successful fit); at any other such step the cache is left unchanged and the
\* cached model is the one that predicts the test row.
C2_RefitCadence ==
    (Stepped /\ have_conflict /\ L.base = "ok") =>
        /\ (L.fit # "none") <=> RefitDue
        /\ (L.model_before = None) <=> (L.fit_t_before = None)
        /\ L.fit = "ok" => rf_last_fit_t = <<L.t>> /\ rf_model[1].fit_t = L.t
        /\ L.fit # "ok" => rf_model = L.model_before
                           /\ rf_last_fit_t = L.fit_t_before
        /\ (L.fit = "none" /\ L.rf = "ok") =>
               L.used = L.model_before /\ LastRec.Pred_RF # NaN

\* A step that reuses the cache, and one that refits an existing model
C2_Witness ==
    Stepped /\ have_conflict /\ L.fit = "ok" /\ L.model_before # None
            /\ L.t - L.fit_t_before[1] = rf_refit_every

\* C3: between two consecutive successful refits at least rf_refit_every loop
\* iterations elapse.
C3_MinIterationsBetweenRefits ==
    (Stepped /\ L.fit = "ok" /\ L.fit_t_before # None) =>
        (L.t - L.fit_t_before[1]) \div step_size >= rf_refit_every

\* C4: the visited indices are window_size, window_size + step_size, ... up to
\* the largest one below n_obs; each trains on the window_size rows before t
\* and tests on row t alone.
C4_WindowDiscipline ==
    /\ Stepped =>
          /\ L.t = window_size + L.k * step_size
          /\ L.t <= n_obs - 1
          /\ L.train.lo = L.t - window_size /\ L.train.hi = L.t - 1
          /\ L.train.lo >= 0
          /\ L.test = L.t
          /\ n_iter = L.k + 1
    /\ (Ran /\ pc = "done" /\ result \in {"None", "table"} /\ n_iter > 0) =>
          window_size + n_iter * step_size >= n_obs

C4_Witness ==
    Stepped /\ pc = "done" /\ step_size > 1 /\ n_iter > 2
            /\ L.t < n_obs - 1

\* C5: a failing baseline emits no record, adds exactly one to the baseline
\* failure counter and lets the loop go on to the next index; a run with one
\* failing baseline step ends with a baseline failure count of 1, having
\* visited every evaluation index.
C5_BaselineFailure ==
    /\ (Stepped /\ L.base = "fail") =>
          /\ Len(rows) = L.n_rows_before
          /\ \A i \in 1..Len(rows) : rows[i].Date # L.t
          /\ n_fail = [L.n_fail_before EXCEPT !.base = @ + 1]
          /\ t = L.t + step_size
          /\ result # "raised"
    /\ (Ran /\ pc = "done" /\ raised.base = 1) =>
          /\ n_fail.base = 1
          /\ result \in {"None", "table"}
          /\ window_size + n_iter * step_size >= n_obs

C5_Witness ==
    Ran /\ pc = "done" /\ raised.base = 1 /\ result = "table" /\ L.base = "ok"

\* C6 as stated: whichever forecaster fails at a step, the other active
\* forecasters are still attempted at that step and the step's record carries
\* their successful predictions.
C6_FailureSkipsOnlyThatModel ==
    (Stepped /\ have_conflict) =>
        /\ L.base = "fail" => L.aug # "skip" /\ L.rf # "skip" /\ L.emitted
        /\ L.aug = "fail" => L.rf # "skip" /\ L.emitted
        /\ L.rf = "fail" => L.aug # "skip" /\ L.emitted

\* C6 (amended): a failure of the augmented model or of the benchmark skips
\* the step for that model only: the other one is still attempted and the
\* step's record carries the baseline prediction and the other model's
\* prediction when it succeeded.  A failure of the baseline skips the step for
\* every model: nothing else is attempted and no record is appended.
C6_SubModelFailureSkipsOnlyThatModel ==
    Stepped =>
        /\ L.aug = "fail" =>
              /\ L.rf # "skip" /\ L.emitted /\ LastRec.Date = L.t
              /\ LastRec.Pred_HAR # NaN
              /\ L.rf = "ok" => LastRec.Pred_RF # NaN
        /\ L.rf = "fail" =>
              /\ L.aug # "skip" /\ L.emitted /\ LastRec.Date = L.t
              /\ LastRec.Pred_HAR # NaN
              /\ L.aug = "ok" => LastRec.Pred_HARX # NaN
        /\ L.base = "fail" =>
              /\ L.aug = "skip" /\ L.rf = "skip" /\ ~L.emitted
              /\ Len(rows) = L.n_rows_before
              /\ n_fit = L.n_fit_before + 1

C6_Witness ==
    Stepped /\ L.aug = "fail" /\ L.rf = "ok" /\ LastRec.Pred_RF # NaN

\* C7: at a step where the baseline succeeded the record is appended whatever
\* the two other models did; a failing model leaves its own field missing and
\* adds one to its own counter, and nothing else; in augmented mode both
\* models are attempted, each whatever the outcome of the other.
C7_SubModelFailure ==
    (Stepped /\ L.base = "ok") =>
        /\ L.emitted /\ Len(rows) = L.n_rows_before + 1
        /\ LastRec.Date = L.t /\ LastRec.Pred_HAR # NaN
        /\ n_fail.base = L.n_fail_before.base
        /\ n_fail.aug = L.n_fail_before.aug + B2N(L.aug = "fail")
        /\ n_fail.rf = L.n_fail_before.rf + B2N(L.rf = "fail")
        /\ (L.aug = "ok") <=> (LastRec.Pred_HARX # NaN)
        /\ (L.rf = "ok") <=> (LastRec.Pred_RF # NaN)
        /\ have_conflict => L.aug # "skip" /\ L.rf # "skip"

\* A step where both the augmented model and the benchmark failed
C7_Witness ==
    Stepped /\ L.base = "ok" /\ L.aug = "fail" /\ L.rf = "fail"
            /\ LastRec.Pred_HARX = NaN /\ LastRec.Pred_RF = NaN

\* C8: with window_size = 750 on a 770-row table the run returns the per-step
\* forecast table, with the comparison reported as not available.
C8_ShortTableReturnsForecasts ==
    (Ran /\ pc = "done" /\ file_exists /\ missing = {}
         /\ window_size = 750 /\ n_obs = 770) =>
        /\ result = "table"
        /\ Len(rows) > 0
        /\ report = NoReport

\* Size of the common sample of the records appended so far
CommonSize ==
    Cardinality({i \in 1..Len(rows) :
        /\ rows[i].Pred_HAR # NaN
        /\ have_conflict => rows[i].Pred_HARX # NaN /\ rows[i].Pred_RF # NaN})

\* C9: dm_test on fewer than 30 points returns (nan, nan), and a finished run
\* whose common sample has fewer than 30 records has computed no QLIKE score
\* and no DM statistic.
C9_MinimumSample ==
    /\ (call = "dm_test" /\ pc = "done" /\ Len(dm_args.actual) < 30) =>
          dm_out[1].kind = "nan"
    /\ (Ran /\ pc = "done" /\ CommonSize < 30) => report = NoReport

\* A run that returns 50 or more records with a common sample under 30
C9_Witness ==
    Ran /\ pc = "done" /\ result = "table" /\ Len(rows) >= 50
        /\ CommonSize < 30 /\ CommonSize > 0

\* C10: a missing file, a missing required column, an empty table or a cleaned
\* table of fewer than window_size + 50 rows ends the run without a result,
\* before any estimator is fitted and before any record is appended.
C10_FatalInputErrors ==
    (Ran /\ pc # "start"
         /\ (~file_exists \/ missing # {} \/ n_obs = 0
             \/ n_obs < window_size + 50)) =>
        /\ pc = "done"
        /\ result \in {"None", "raised"}
        /\ n_fit = 0 /\ n_iter = 0
        /\ rows = <<>>
        /\ report = NoReport

C10_Witness ==
    Ran /\ pc = "done" /\ file_exists /\ missing = {} /\ n_obs > window_size
        /\ n_obs < window_size + 50 /\ result = "None" /\ n_fit = 0

----------------------------------------------------------------------------
(* C11 *)

\* Without a resolved column no record holds a HAR-X or RF prediction, the
\* cache is empty, nothing was counted for HAR-X or RF, and the only fits
\* are the baseline's, one per iteration
C11_Skipped ==
    ~have_conflict =>
        /\ \A i \in 1..Len(rows) : rows[i].Pred_HARX = NaN /\ rows[i].Pred_RF = NaN
        /\ rf_model = None /\ rf_last_fit_t = None
        /\ n_fail.aug = 0 /\ n_fail.rf = 0
        /\ raised.aug = 0 /\ raised.rf = 0
        /\ n_fit = n_iter

\* C11: augmented mode is decided once, before the loop: from the loop on
\* have_conflict and final_conflicts never change, and in a run without a
\* resolved lag-1 column neither HAR-X nor the benchmark is ever fitted, every
\* record has Pred_HARX and Pred_RF missing, the cache stays empty and the
\* aug and rf failure counters stay 0.
C11_WholeRunPolicy ==
    [][(pc # "start" => UNCHANGED selvars) /\ C11_Skipped']_vars

\* A complete run of 50 or more records without a resolved column
C11_Witness ==
    /\ call = "run_walk_forward" /\ pc = "done" /\ result = "table"
    /\ ~have_conflict
    /\ Len(rows) >= MinForecasts
    /\ n_iter = Len(rows)

----------------------------------------------------------------------------
(* C12 *)

\* The selection of lines 114-139 was executed
Selected ==
    /\ call = "run_walk_forward" /\ pc # "start"
    /\ file_exists /\ missing = {}

\* The sources the selection associates with each commodity
MappedSources(name) ==
    IF name = "WTI" THEN {"middle_east"}
    ELSE IF name = "GAS" THEN {"europe"}
    ELSE IF name = "GOLD" THEN {"global", "middle_east"}
    ELSE {}

\* C12: when the file holds a column {source}__{indicator}_lag{N} with
\* N >= 1 of a source mapped to the commodity, exactly one such column is
\* selected; a lag-0 column is never selected; and in augmented mode the
\* augmented features are the three baseline features and that one column.
C12_SignalSelection ==
    Selected =>
        LET eligible == {c \in df_columns :
                            c.lag >= 1 /\ c.tag \in MappedSources(commodity_name)}
        IN  /\ eligible # {} =>
                Len(final_conflicts) = 1 /\ final_conflicts[1] \in eligible
            /\ \A i \in 1..Len(final_conflicts) : final_conflicts[i].lag # 0
            /\ have_conflict =>
                /\ X_aug = features_base \cup {ColName(final_conflicts[1])}
                /\ Cardinality(X_aug) = Cardinality(features_base) + 1

----------------------------------------------------------------------------
(* C13 *)

PredFields == {"Pred_HAR", "Pred_HARX", "Pred_RF"}

\* C13: every Actual and every prediction that is not missing, in the
\* records run_walk_forward emits and in the arrays dm_test takes its losses
\* of, is at least the floor 1e-3; a raw value <= 0 is replaced by the floor
\* (the record is emitted, the array keeps its length), never dropped.
C13_FloorBeforeLoss ==
    /\ \A i \in 1..Len(rows) :
           /\ rows[i].Actual >= Floor
           /\ \A f \in PredFields : rows[i][f] # NaN => rows[i][f][1] >= Floor
    /\ (Stepped /\ L.base = "ok") =>
           /\ Len(rows) = L.n_rows_before + 1
           /\ RawAt("y", L.k) <= 0 => LastRec.Actual = Floor
           /\ RawAt("pb", L.k) <= 0 => LastRec.Pred_HAR = <<Floor>>
           /\ (L.aug = "ok" /\ RawAt("pa", L.k) <= 0) => LastRec.Pred_HARX = <<Floor>>
           /\ (L.rf = "ok" /\ RawAt("pr", L.k) <= 0) => LastRec.Pred_RF = <<Floor>>
    /\ dm_out # <<>> =>
           \A f \in {"actual", "pred1", "pred2"} :
               /\ Len(dm_out[2][f]) = Len(dm_args[f])
               /\ \A i \in 1..Len(dm_args[f]) :
                      /\ dm_out[2][f][i] >= Floor
                      /\ dm_args[f][i] <= 0 => dm_out[2][f][i] = Floor

\* A scored run whose first four records each hold a clamped value
C13_Witness ==
    /\ sub_floor /\ result = "table" /\ report.qlike_rf # <<>>
    /\ rows[1].Actual = Floor
    /\ rows[2].Pred_HAR = <<Floor>>
    /\ rows[3].Pred_HARX = <<Floor>>
    /\ rows[4].Pred_RF = <<Floor>>

----------------------------------------------------------------------------
(* C14 *)

\* The models compared in the run
Compared == IF have_conflict THEN PredFields ELSE {"Pred_HAR"}

\* Emitted records in which every compared model has a prediction
ScoredIdx == {i \in 1..Len(rows) : \A f \in Compared : rows[i][f] # NaN}

\* Sum of the QLIKE losses of one model over the records of ScoredIdx
ScoredLoss(f) ==
    SumOver(ScoredIdx, [i \in ScoredIdx |-> Qlike(rows[i].Actual, rows[i][f][1])])

\* <<>>, or the <<sum, sample size>> reported for a model
Reported(f) ==
    IF f = "Pred_HAR" THEN report.qlike_har
    ELSE IF f = "Pred_HARX" THEN report.qlike_harx ELSE report.qlike_rf

\* C14: the records scored are exactly the emitted records in which every
\* compared model (all three in augmented mode, the baseline alone otherwise)
\* has a finite prediction: each reported mean QLIKE is taken over exactly
\* those records, whenever there are enough of them, and their number is at
\* most the number of records with a finite prediction of each compared model.
C14_CommonSample ==
    (call = "run_walk_forward" /\ pc = "done") =>
        \A f \in Compared :
            /\ (result = "table" /\ Cardinality(ScoredIdx) >= MinCommon) =>
                   Reported(f) # <<>>
            /\ Reported(f) # <<>> =>
                   Reported(f)[1] = <<ScoredLoss(f), Cardinality(ScoredIdx)>>
            /\ Cardinality(ScoredIdx)
                   <= Cardinality({i \in 1..Len(rows) : rows[i][f] # NaN})
            /\ (Reported(f) # <<>> /\ have_conflict) =>
                   \A k \in 1..2 : report.dm[k].kind = "stat" =>
                       report.dm[k].df = Cardinality(ScoredIdx) - 1

\* An augmented run scored on fewer records than it emitted
C14_Witness ==
    /\ call = "run_walk_forward" /\ pc = "done" /\ have_conflict
    /\ report.qlike_harx # <<>>
    /\ Cardinality(ScoredIdx) < Len(rows)

----------------------------------------------------------------------------
(* C16 *)

\* C16 (as claimed): the number of evaluation steps is at most
\* (N - window_size) / step_size.
C16_BoundedByQuotient ==
    (call = "run_walk_forward" /\ pc # "start") =>
        n_iter * step_size <= n_obs - window_size

\* C16 (amended): the loop is range(window_size, N, step_size): after k
\* iterations t = window_size + k * step_size with step_size >= 1, an iteration
\* runs only while t < N, so the loop ends after exactly
\* ceil((N - window_size) / step_size) iterations; that ceiling, not the
\* quotient, bounds the number of evaluation steps.
C16_LoopBound ==
    call = "run_walk_forward" =>
        /\ step_size >= 1
        /\ t = window_size + n_iter * step_size
        /\ n_iter > 0 => (n_iter - 1) * step_size < n_obs - window_size
        /\ (pc = "done" /\ n_iter > 0) => n_iter * step_size >= n_obs - window_size

\* A finished loop whose step size does not divide N - window_size
C16_Witness ==
    /\ call = "run_walk_forward" /\ pc = "done" /\ n_iter > 0
    /\ (n_obs - window_size) % step_size # 0
    /\ n_iter * step_size > n_obs - window_size

----------------------------------------------------------------------------
(* C17 *)

\* Cells of the training slice of the step at index tt, and of its test row
TrainCells(tt, cols) == ((tt - window_size)..(tt - 1)) \X (cols \cup {target})
TestCells(tt, cols) == {tt} \X cols
SliceCells(tt, cols) == TrainCells(tt, cols) \cup TestCells(tt, cols)

\* C17: at every step the baseline is estimated, and its prediction and the
\* augmented one are decided by the training slice and the test row of that
\* step alone, whatever the earlier steps left behind (records, counters,
\* cache); only the benchmark can be decided by an earlier step, through the
\* cached model, and then by the slice that model was fitted on and by the
\* test row of this step.
C17_OnlyCacheCarried ==
    Stepped =>
        /\ L.base \in {"ok", "fail"}
        /\ L.train = [lo |-> L.t - window_size, hi |-> L.t - 1] /\ L.test = L.t
        /\ L.base = "ok" => ReadsHAR = SliceCells(L.t, features_base)
        /\ L.aug = "ok" => ReadsHARX = SliceCells(L.t, X_aug)
        /\ L.rf = "ok" =>
               \/ /\ L.fit = "ok"
                  /\ ReadsRF = SliceCells(L.t, X_aug)
               \/ /\ L.fit = "none" /\ L.model_before # None
                  /\ L.used = L.model_before
                  /\ ReadsRF = TrainCells(L.model_before[1].fit_t, X_aug)
                                  \cup TestCells(L.t, X_aug)

\* All three models predict, the benchmark from a model cached by an earlier
\* step, after an earlier step in which an estimator raised
C17_Witness ==
    /\ Stepped /\ L.base = "ok" /\ L.aug = "ok" /\ L.rf = "ok"
    /\ L.fit = "none" /\ L.model_before # None
    /\ L.n_fail_before.base + L.n_fail_before.aug + L.n_fail_before.rf > 0
    /\ L.model_before[1].fit_t < L.t

----------------------------------------------------------------------------
(* C18 *)

\* A direct call dm_test(actual, pred1, pred2, nw_lags) has returned
DmReturned == call = "dm_test" /\ pc = "done" /\ dm_out # <<>>

\* The value of the call with the two prediction series exchanged
Swapped == dm_test(dm_args.actual, dm_args.pred2, dm_args.pred1, dm_args.nw_lags)

\* C18: dm_test(actual, A, B) and dm_test(actual, B, A) return the same kind
\* of outcome (not available for both, degenerate for both, or a statistic
\* for both); the statistics have opposite sign and equal magnitude (the
\* same squared mean over the same variance), and the p-values, decided by
\* the magnitude and the degrees of freedom, are equal.
C18_DmSymmetry ==
    DmReturned =>
        /\ dm_out[1].kind = Swapped.kind
        /\ dm_out[1].sign = 0 - Swapped.sign
        /\ dm_out[1].num = Swapped.num /\ dm_out[1].den = Swapped.den
        /\ dm_out[1].df = Swapped.df

\* A call on two different prediction series returning a non-zero statistic
C18_Witness ==
    /\ DmReturned /\ dm_out[1].kind = "stat" /\ dm_out[1].sign # 0
    /\ dm_args.pred1 # dm_args.pred2

----------------------------------------------------------------------------
(* C19 *)

\* C19: a call on 30 or more points whose variance estimate is zero or
\* negative returns statistic 0 and p-value 1, and a statistic is only ever
\* formed by dividing by a positive variance, in direct calls and in the
\* tests of the reporting stage.
C19_DegenerateVariance ==
    /\ (DmReturned /\ Len(dm_args.actual) >= DmMinT) =>
           /\ dm_out[2].var_hat.num <= 0 =>
                  /\ dm_out[1].kind = "degenerate"
                  /\ dm_out[1].sign = 0 /\ dm_out[1].num = 0
           /\ dm_out[1].kind = "stat" =>
                  dm_out[2].var_hat.num > 0 /\ dm_out[1].den > 0
    /\ \A k \in 1..Len(report.dm) :
           report.dm[k].kind = "stat" => report.dm[k].den > 0

\* A call on 30 or more points with a negative variance estimate
C19_Witness ==
    /\ DmReturned /\ Len(dm_args.actual) >= DmMinT
    /\ dm_out[2].var_hat.num < 0
    /\ dm_out[1].kind = "degenerate"

----------------------------------------------------------------------------
(* C20 *)

\* T * dc of the direct call
DmD == Centered(LossDiff(dm_args.actual, dm_args.pred1, dm_args.pred2))

\* gamma0 + 2 * sum of w_L * gamma_L with every gamma_L = (1/T) * sum of
\* dc[i] * dc[i-L], as the numerator of a fraction over T^3 * (nw_lags + 1)
NwNumOverT ==
    LET lags == dm_args.nw_lags
        Lags == 1..lags
    IN  (lags + 1) * CrossSum(DmD, 0, 1)
        + SumOver(Lags, [K \in Lags |-> 2 * (lags + 1 - K) * CrossSum(DmD, K, K + 1)])

\* C20: on 30 or more points the variance dm_test uses is
\* gamma0 + 2 * sum over L = 1..lags of (1 - L/(lags+1)) * gamma_L, with
\* gamma_L = (1/T) * sum over i = L+1..T of dc[i] * dc[i-L].
C20_NeweyWestVariance ==
    (DmReturned /\ Len(dm_args.actual) >= DmMinT) =>
        dm_out[2].var_hat.num * (dm_args.nw_lags + 1)
            = NwNumOverT * dm_out[2].var_hat.scale

----------------------------------------------------------------------------
(* C21 *)

\* The file row behind position i (0-based) of the cleaned table
RowAt(i) == RawRow(file_rows, data[i + 1])

\* A row of the file with every required cell finite and its date in bounds
Eligible(r) ==
    /\ r.date >= StartDate /\ r.date <= EndDate
    /\ r.cells.req = "ok"
    /\ have_conflict => r.cells.conf = "ok"

\* Positions of the cleaned table used by the latest iteration
UsedPositions == (L.train.lo .. L.train.hi) \cup {L.test}

\* C21: every row of a training slice and every test row has Date, Target_RV,
\* the three baseline features and, in augmented mode, the selected column
\* finite, and its date within [start_date, end_date], both dates included;
\* the rows of the file that fail this are not in the cleaned table, and the
\* rows that are in it are rows of the file as read (none is filled in).
C21_RowEligibility ==
    (Selected /\ pc # "start") =>
        /\ \A k \in 1..Len(data) :
               /\ data[k] \in 1..RawLen(file_rows)
               /\ Eligible(RawRow(file_rows, data[k]))
        /\ \A p \in 1..RawLen(file_rows) :
               LET r == RawRow(file_rows, p)
                   kept == \E k \in 1..Len(data) : data[k] = p
               IN  /\ ~Eligible(r) => ~kept
                   /\ (Eligible(r) /\ r.cells = AllOk) => kept
        /\ Stepped =>
               \A i \in UsedPositions : i + 1 \in 1..Len(data) /\ Eligible(RowAt(i))

\* An augmented step whose training slice spans rows the cleaning removed
C21_Witness ==
    /\ Stepped /\ have_conflict /\ L.base = "ok"
    /\ data[L.train.hi + 1] - data[L.train.lo + 1] > window_size - 1

----------------------------------------------------------------------------
(* C22 *)

\* C22: the cleaned table holds the kept rows of the file in file order;
\* each training slice is the window_size consecutive positions before t;
\* and the records are emitted in strictly increasing order of t.
C22_OrderPreserved ==
    (Selected /\ pc # "start") =>
        /\ \A k \in 1..(Len(data) - 1) : data[k] < data[k + 1]
        /\ Stepped =>
               /\ L.train.hi - L.train.lo + 1 = window_size
               /\ L.train.hi + 1 = L.t
               /\ \A p \in data[L.train.lo + 1] .. data[L.train.hi + 1] :
                      (\E k \in 1..Len(data) : data[k] = p) =>
                          \E i \in L.train.lo .. L.train.hi : data[i + 1] = p
        /\ \A i \in 1..(Len(rows) - 1) : rows[i].Date < rows[i + 1].Date
        /\ (Stepped /\ L.base = "ok") => LastRec.Date = L.t

\* A finished run of 50 or more records with a step left out by a baseline
\* failure, on a table from which the cleaning removed rows
C22_Witness ==
    /\ Selected /\ pc = "done" /\ result = "table"
    /\ n_fail.base > 0
    /\ Len(data) < RawLen(file_rows)
    /\ \E i \in 1..(Len(rows) - 1) : rows[i + 1].Date > rows[i].Date + step_size

----------------------------------------------------------------------------
(* C23 *)

\* A call of build_dataset_for_commodity has returned
Built == call = "build_dataset_for_commodity" /\ pc = "done" /\ bd_out # <<>>

\* The days of the feature file
BuildDays == {bd_args.file[i] : i \in 1..Len(bd_args.file)}

\* The days of the file before / after day d, and the day k rows before or
\* after d in date order (<<>> when there is none)
DaysBefore(d) == {e \in BuildDays : e < d}
DaysAfter(d) == {e \in BuildDays : e > d}
Back(d, k) ==
    IF Cardinality(DaysBefore(d)) < k THEN <<>>
    ELSE <<CHOOSE e \in DaysBefore(d) \cup {d} :
             Cardinality({x \in DaysBefore(d) : x >= e}) = k>>

\* The conflict value merged into the row of day d
MergedAt(d) == IF d \in bd_args.present THEN 100 + d ELSE 0

\* C23: in the table returned, rows are in date order; each row's Target_RV
\* is the RV_Daily of the next day of the feature file, and the last day,
\* which has no next day, is absent; every <col>_lagK of a row is the merged
\* conflict value of the row K rows earlier, so for K >= 1 it is never a
\* value of that row's day or a later one.
C23_TargetAndLags ==
    Built =>
        LET out == bd_out[1]
        IN  /\ \A i \in 1..(Len(out) - 1) : out[i].Date < out[i + 1].Date
            /\ \A i \in 1..Len(out) :
                 LET r == out[i]
                 IN  /\ r.Date \in BuildDays
                     /\ DaysAfter(r.Date) # {}
                     /\ r.RV_Daily = <<10 + r.Date>>
                     /\ \E nxt \in DaysAfter(r.Date) :
                            /\ \A e \in DaysAfter(r.Date) : nxt <= e
                            /\ r.Target_RV = <<10 + nxt>>
                     /\ \A K \in DOMAIN r.lag :
                            /\ Back(r.Date, K) # <<>>
                            /\ r.lag[K] = <<MergedAt(Back(r.Date, K)[1])>>
                            /\ K >= 1 => \A e \in BuildDays :
                                   (e >= r.Date /\ e \in bd_args.present) =>
                                       r.lag[K] # <<100 + e>>

\* A table built from an unsorted file, with a lag-1 value taken from the
\* conflict file
C23_Witness ==
    /\ Built /\ Len(bd_out[1]) >= 2
    /\ \E i \in 1..(Len(bd_args.file) - 1) : bd_args.file[i] > bd_args.file[i + 1]
    /\ \E i \in 1..Len(bd_out[1]) :
           1 \in DOMAIN bd_out[1][i].lag /\ bd_out[1][i].lag[1] # <<0>>

----------------------------------------------------------------------------
(* C24 *)

\* C24: on the dataset main builds for a commodity, run_walk_forward
\* resolves a lag-1 conflict column and runs in augmented mode: HAR-X and
\* the benchmark are attempted at every step whose baseline succeeded.
C24_PipelineResolvesColumn ==
    (Selected /\ commodity_name \in MainCommodities
        /\ df_columns = [tag : merge_config(commodity_name),
                         ind : {"log_fatal_ewma_94"}, lag : {0, 1}]) =>
        /\ have_conflict
        /\ final_conflicts # <<>>
        /\ (Stepped /\ L.base = "ok") => (L.aug # "skip" /\ L.rf # "skip")

----------------------------------------------------------------------------
(* C25 *)

\* C25: a benchmark prediction emitted at step t comes from a model fitted
\* at an index t_fit with 0 <= t - t_fit < max(rf_refit_every, 1), on the
\* rows t_fit - window_size .. t_fit - 1, all before t; a model with
\* t - t_fit >= rf_refit_every never predicts.
C25_BenchmarkFreshness ==
    (Stepped /\ L.base = "ok") =>
        /\ LastRec.Pred_RF # NaN <=> L.rf = "ok"
        /\ L.rf = "ok" =>
               /\ L.used # None
               /\ L.t - L.used[1].fit_t >= 0
               /\ L.t - L.used[1].fit_t < (IF rf_refit_every > 1 THEN rf_refit_every ELSE 1)
               /\ L.used[1].lo = L.used[1].fit_t - window_size
               /\ L.used[1].hi = L.used[1].fit_t - 1
               /\ L.used[1].hi < L.t

\* A prediction by a cached model at the last step before its refit is due
C25_Witness ==
    /\ Stepped /\ L.rf = "ok" /\ L.fit = "none"
    /\ L.t - L.used[1].fit_t > 0
    /\ L.t + step_size - L.used[1].fit_t >= rf_refit_every

\* ---------------------------------------------------------------------
\* C26  The cached benchmark model and the index of its last fit move
\*      together: both are empty until the first successful fit and both
\*      are set from then on; the index changes only at a step whose fit
\*      succeeded, where it becomes that step's index t and the model
\*      becomes the one fitted on that step's window; the index never
\*      decreases and never exceeds the latest evaluation index.
CacheInSync ==
    /\ (rf_model = None) <=> (rf_last_fit_t = None)
    /\ rf_last_fit_t # None =>
           /\ rf_model[1].fit_t = rf_last_fit_t[1]
           /\ Stepped /\ rf_last_fit_t[1] <= L.t

CacheMoved == rf_last_fit_t' # rf_last_fit_t \/ rf_model' # rf_model

C26_CacheConsistency ==
    [][ /\ CacheInSync'
        /\ CacheMoved =>
               /\ last'[1].fit = "ok"
               /\ rf_last_fit_t' = <<last'[1].t>>
               /\ rf_model' = <<[fit_t |-> last'[1].t,
                                 lo |-> last'[1].t - window_size,
                                 hi |-> last'[1].t - 1]>>
               /\ rf_last_fit_t # None => rf_last_fit_t'[1] > rf_last_fit_t[1]
        /\ (last' # last /\ last'[1].fit # "ok") => ~CacheMoved ]_vars

C26_Witness ==
    /\ Stepped /\ L.fit = "ok"
    /\ L.fit_t_before # None /\ L.model_before # None
    /\ rf_last_fit_t = <<L.t>>
    /\ rf_last_fit_t[1] > L.fit_t_before[1]
    /\ rf_model # L.model_before

\* ---------------------------------------------------------------------
\* C27  Failed benchmark refit.  When a refit is due at step t and the
\*      fit raises, the cache (model and fit index) is left as it was,
\*      Pred_RF of step t is missing, the rf failure counter grows by one
\*      and the cached model is not used as a fallback.  The refit is
\*      attempted again, on the window of that later step, at the next
\*      evaluation step whose baseline succeeded; a step whose baseline
\*      failed attempts no refit.  (The claim as stated promises the new
\*      attempt at the very next evaluation step.)
RefitFailed == Stepped /\ L.need_refit /\ L.fit = "fail"

FailedRefitLeavesCache ==
    RefitFailed =>
        /\ rf_model = L.model_before
        /\ rf_last_fit_t = L.fit_t_before
        /\ L.emitted /\ LastRec.Date = L.t /\ LastRec.Pred_RF = NaN
        /\ L.used = None /\ L.rf = "fail"
        /\ n_fail.rf = L.n_fail_before.rf + 1

NextStepAfterFailedRefit == RefitFailed /\ last' # last

OwnWindow(l) == l.train = TrainIdx(l.t, window_size) /\ l.need_refit

C27_RetriedAtNextStep ==
    [][ NextStepAfterFailedRefit =>
            /\ last'[1].t = L.t + step_size
            /\ last'[1].fit # "none" ]_vars

C27_FailedRefit ==
    [][ /\ FailedRefitLeavesCache'
        /\ NextStepAfterFailedRefit =>
               /\ last'[1].t > L.t
               /\ last'[1].base = "ok" =>
                      last'[1].fit # "none" /\ OwnWindow(last'[1])
               /\ last'[1].base # "ok" =>
                      last'[1].fit = "none" /\ rf_model' = rf_model ]_vars

C27_Witness ==
    /\ Stepped /\ L.fit = "ok" /\ L.need_refit
    /\ L.model_before # None
    /\ L.n_fail_before.rf > 0
    /\ L.t - L.fit_t_before[1] >= rf_refit_every + step_size
    /\ rf_model[1].lo = L.t - window_size

\* ---------------------------------------------------------------------
\* C28  Step accounting.  After any number of loop iterations the number
\*      of emitted records plus the baseline failure counter equals the
\*      number of evaluation steps visited so far; a visited step
\*      contributes at most one record (exactly one when its baseline
\*      succeeded, none otherwise, so record dates are strictly
\*      increasing), and every emitted record has a Pred_HAR.
C28_StepAccounting ==
    /\ Len(rows) + n_fail.base = n_iter
    /\ \A i \in 1..Len(rows) :
           /\ rows[i].Pred_HAR # NaN
           /\ i > 1 => rows[i - 1].Date < rows[i].Date
    /\ Stepped =>
           /\ n_iter = L.k + 1
           /\ L.t = window_size + L.k * step_size
           /\ Len(rows) = L.n_rows_before + B2N(L.base = "ok")
           /\ n_fail.base = L.n_fail_before.base + B2N(L.base # "ok")
           /\ L.emitted <=> L.base = "ok"

C28_Witness ==
    /\ Stepped /\ n_iter >= 3
    /\ n_fail.base > 0 /\ Len(rows) > 0
    /\ L.base # "ok" /\ L.n_fail_before.base > 0
    /\ Len(rows) = L.n_rows_before

\* ---------------------------------------------------------------------
\* C29  Sub-model failure accounting.  The augmented model and the
\*      benchmark are attempted only at steps whose baseline succeeded;
\*      in augmented mode the augmented (resp. benchmark) failure counter
\*      equals the number of emitted records whose Pred_HARX (resp.
\*      Pred_RF) is missing, and neither counter exceeds the number of
\*      emitted records.
MissingIn(field) == Cardinality({i \in 1..Len(rows) : rows[i][field] = NaN})

C29_SubModelAccounting ==
    /\ have_conflict =>
           /\ n_fail.aug = MissingIn("Pred_HARX")
           /\ n_fail.rf = MissingIn("Pred_RF")
    /\ n_fail.aug <= Len(rows)
    /\ n_fail.rf <= Len(rows)
    /\ Stepped =>
           /\ L.base # "ok" =>
                  /\ L.aug = "skip" /\ L.rf = "skip" /\ L.fit = "none"
                  /\ n_fail.aug = L.n_fail_before.aug
                  /\ n_fail.rf = L.n_fail_before.rf
           /\ n_fail.aug = L.n_fail_before.aug + B2N(L.aug = "fail")
           /\ n_fail.rf = L.n_fail_before.rf + B2N(L.rf = "fail")

C29_Witness ==
    /\ Stepped /\ have_conflict
    /\ n_fail.aug > 0 /\ n_fail.rf > 0
    /\ MissingIn("Pred_HARX") = 1 /\ MissingIn("Pred_RF") = 1
    /\ Len(rows) >= 2
    /\ rows[Len(rows)].Pred_HARX # NaN /\ rows[Len(rows)].Pred_RF # NaN

\* ---------------------------------------------------------------------
\* C30  Pipeline step ordering in main: the in-sample analysis (step 5)
\*      starts only after the step-4 merge loop has finished for all
\*      commodities, and run_har_comparison is invoked exactly once per
\*      successfully merged commodity dataset in a pipeline run.
MainRan == call = "main"

HarCallsFor(name) ==
    Cardinality({k \in 1..Len(main_st.har_calls) : main_st.har_calls[k].name = name})

C30_Step5AfterMergeLoop ==
    MainRan =>
        /\ \A k \in 1..Len(main_st.har_calls) :
               main_st.har_calls[k].visited = Len(MainOrder)
        /\ pc = "done" =>
               \A name \in MainCommodities :
                   HarCallsFor(name) = (IF name \in main_in THEN 1 ELSE 0)

====
